---- MODULE Spec2Model ----
(***************************************************************************)
(* Model of the SauceDemo page objects' verification logic:                *)
(*   - InventoryPage.getProductNames / getProductPrices and the four       *)
(*     areProductsSorted* checks (src/inventory-page.ts),                  *)
(*   - the expected-order comparison of the sorting tests                  *)
(*     (src/unnamed/part_001, sorting.spec.ts),                            *)
(*   - the totals checks of the checkout overview called by TC_08          *)
(*     (src/unnamed/part_002, checkout.spec.ts).                           *)
(*                                                                         *)
(* JavaScript numbers are modelled as records [nan, v]: v is the value in  *)
(* cents (the displayed prices have two decimals, so ordering, equality    *)
(* and the sign of a difference are preserved), nan marks NaN.             *)
(***************************************************************************)
EXTENDS Integers, Sequences, FiniteSets, TLC

VARIABLES
    pageItems,      \* the .inventory_item elements shown, in display order
    lastCheck,      \* which areProductsSorted* ran last ("none" before any)
    names,          \* local `names` of the last name check
    sortedNames,    \* local `sortedNames` of the last name check
    prices,         \* local `prices` of the last price check
    sortedPrices,   \* local `sortedPrices` of the last price check
    result,         \* boolean returned by the last areProductsSorted*
    productNames,   \* the test's `productNames` (sorting.spec.ts)
    expected,       \* the reference list handed to toEqual
    compared,       \* TRUE once expect(productNames).toEqual(..) has run
    matched,        \* whether that toEqual assertion passed
    subtotal,       \* checkout overview: item total, in cents
    tax,            \* checkout overview: displayed tax, in cents
    total,          \* checkout overview: displayed total, in cents
    rate,           \* tax rate, in percent
    totalsCheck,    \* which totals check ran last ("none" before any)
    expectedTax,    \* expected tax computed by the last tax check, in cents
    taxValid,       \* boolean returned by validateTaxCalculation
    totalValid,     \* boolean returned by validateTotalCalculation
    pages,          \* concurrent scenarios: the page of each scenario
    verdicts,       \* concurrent scenarios: the last check of each scenario
    selected,       \* the option selected in the sort dropdown
    renderPending,  \* TRUE while the page has not re-rendered for `selected`
    sortPc,         \* sortProductsBy: "idle", or "waiting" in waitForTimeout
    returnedOption, \* option of the sortProductsBy call that returned last
    sortCount,      \* sortProductsBy calls the test has made
    tcPhase,        \* sorting test: "sorting", then "read" once it has read
    readPrices,     \* the test's `prices`
    shots,          \* takeScreenshot calls the test has made
    shotFailed,     \* TRUE once page.screenshot has thrown
    cartRows,       \* the page: names of the products in the cart, as listed
    requested,      \* names added by the page objects and not removed since
    cartThrown,     \* TRUE once a cart operation has thrown
    lastCartOp,     \* "none", "add" or "remove"
    cartCount,      \* the test's `cartCount`
    countSource,    \* "none", "badge" or "rows": what cartCount was read from
    cartItemNames,  \* the test's `cartItemNames`
    namesRead,      \* TRUE once cartItemNames is read from the present cart
    url,            \* checkout test: the page the browser shows
    tcStep,         \* checkout test: the statement it is at, or how it ended
    trail,          \* checkout test: the steps it has completed, in order
    overviewItems   \* the test's `overviewItems`

vars == <<pageItems, lastCheck, names, sortedNames, prices, sortedPrices, result,
          productNames, expected, compared, matched,
          subtotal, tax, total, rate, totalsCheck, expectedTax, taxValid, totalValid,
          pages, verdicts,
          selected, renderPending, sortPc, returnedOption, sortCount, tcPhase, readPrices,
          shots, shotFailed,
          cartRows, requested, cartThrown, lastCartOp, cartCount, countSource,
          cartItemNames, namesRead,
          url, tcStep, trail, overviewItems>>

orderingVars == <<lastCheck, names, sortedNames, prices, sortedPrices, result>>
compareVars == <<productNames, expected, compared, matched>>
totalsVars == <<subtotal, tax, total, rate, totalsCheck, expectedTax, taxValid, totalValid>>
sharedVars == <<pages, verdicts>>
\* the state of the scenarios that the checks of one page leave alone
sortVars == <<selected, renderPending, sortPc, returnedOption, sortCount, tcPhase, readPrices>>
evidenceVars == <<shots, shotFailed>>
cartVars == <<cartRows, requested, cartThrown, lastCartOp, cartCount, countSource,
              cartItemNames, namesRead>>
checkoutVars == <<url, tcStep, trail, overviewItems>>
scenarioVars == <<sharedVars, sortVars, evidenceVars, cartVars, checkoutVars>>

(***************************************************************************)
(* Bounds                                                                  *)
(***************************************************************************)
MaxItems == 3       \* products shown on the page
MaxExpected == 3    \* length of an expected reference list

(***************************************************************************)
(* JavaScript values                                                       *)
(***************************************************************************)
NaN == [nan |-> TRUE, v |-> 0]
Num(c) == [nan |-> FALSE, v |-> c]

Sign(n) == IF n < 0 THEN -1 ELSE IF n > 0 THEN 1 ELSE 0

\* textContent() of an element without text
NullText == "<null>"

\* The page under test: each item shows a name text and a price text.
\* "Zoe_NFC" and "Zoe_NFD" stand for the two canonically equivalent Unicode
\* encodings of the same name (precomposed / decomposed diaeresis): distinct
\* strings that localeCompare reports as equal.
Catalog ==
    { [name |-> "Apple",   price |-> "$7.99"],
      [name |-> " Mango ", price |-> "$15.99"],
      [name |-> "Zebra",   price |-> "$15.99"],
      [name |-> "Zoe_NFD", price |-> "N/A"],
      [name |-> "Zoe_NFC", price |-> "$29.99"] }

RECURSIVE SeqsUpTo(_, _)
SeqsUpTo(S, n) ==
    IF n = 0 THEN { <<>> }
    ELSE LET shorter == SeqsUpTo(S, n - 1)
         IN  shorter \cup { Append(s, x) : s \in shorter, x \in S }

\* String.prototype.trim
trim(t) == CASE t = " Mango " -> "Mango"
             [] t = " " -> ""
             [] OTHER -> t

\* priceText.replace('$', ''): removes the first dollar sign
replaceDollar(t) ==
    CASE t = "$7.99" -> "7.99"
      [] t = "$15.99" -> "15.99"
      [] t = "$29.99" -> "29.99"
      [] t = "$-5.00" -> "-5.00"
      [] OTHER -> t

\* parseFloat: the number a text starts with, NaN when it starts with none
parseFloat(t) ==
    CASE t = "7.99" -> Num(799)
      [] t = "15.99" -> Num(1599)
      [] t = "29.99" -> Num(2999)
      [] t = "-5.00" -> Num(-500)
      [] t = "-5" -> Num(-500)
      [] OTHER -> NaN

\* String(x): the text of a number
numberToString(x) ==
    CASE x.nan -> "NaN"
      [] x.v = 799 -> "7.99"
      [] x.v = 1599 -> "15.99"
      [] x.v = 2999 -> "29.99"
      [] x.v = -500 -> "-5"
      [] OTHER -> ToString(x.v)

\* `if (text)`: null and the empty string are falsy
Truthy(t) == t # NullText /\ t # ""

(***************************************************************************)
(* Extraction                                                              *)
(***************************************************************************)
RECURSIVE getProductNames(_)
getProductNames(items) ==
    IF items = <<>> THEN <<>>
    ELSE LET rest == getProductNames(SubSeq(items, 1, Len(items) - 1))
             name == items[Len(items)].name
         IN  IF Truthy(name) THEN Append(rest, trim(name)) ELSE rest

RECURSIVE getProductPrices(_)
getProductPrices(items) ==
    IF items = <<>> THEN <<>>
    ELSE LET rest == getProductPrices(SubSeq(items, 1, Len(items) - 1))
             priceText == items[Len(items)].price
         IN  IF Truthy(priceText)
             THEN Append(rest, parseFloat(replaceDollar(priceText)))
             ELSE rest

(***************************************************************************)
(* Comparators                                                             *)
(***************************************************************************)
\* Collation rank of a name: case differences are of lower weight than letter
\* differences, lower case sorts before upper case, canonically equivalent
\* strings collate together.
LocaleRank(s) ==
    CASE s = "apple" -> 1
      [] s = "Apple" -> 2
      [] s = "Mango" -> 3
      [] s = " Mango " -> 3
      [] s = "Zebra" -> 4
      [] s = "Zoe_NFC" -> 5
      [] s = "Zoe_NFD" -> 5
      [] OTHER -> 0

\* a.localeCompare(b): negative, zero or positive
localeCompare(a, b) == Sign(LocaleRank(a) - LocaleRank(b))

\* a - b on numbers
Minus(a, b) == IF a.nan \/ b.nan THEN NaN ELSE Num(a.v - b.v)

\* The comparison Array.prototype.sort makes with a comparator: the
\* comparator's result converted to a number, NaN counted as +0.
SortCompare(cmp, a, b) ==
    CASE cmp = "AZ" -> localeCompare(a, b)
      [] cmp = "ZA" -> localeCompare(b, a)
      [] cmp = "LOHI" -> LET d == Minus(a, b) IN IF d.nan THEN 0 ELSE Sign(d.v)
      [] cmp = "HILO" -> LET d == Minus(b, a) IN IF d.nan THEN 0 ELSE Sign(d.v)

Elems(s) == { s[i] : i \in 1..Len(s) }

\* A consistent comparator (ECMA-262, Array.prototype.sort) on the elements
\* of s: a strict weak ordering.
ConsistentComparator(cmp, s) ==
    \A a, b, c \in Elems(s) :
        /\ SortCompare(cmp, a, a) = 0
        /\ SortCompare(cmp, a, b) = -SortCompare(cmp, b, a)
        /\ (SortCompare(cmp, a, b) = 0 /\ SortCompare(cmp, b, c) = 0)
              => SortCompare(cmp, a, c) = 0
        /\ (SortCompare(cmp, a, b) < 0 /\ SortCompare(cmp, b, c) < 0)
              => SortCompare(cmp, a, c) < 0
        /\ (SortCompare(cmp, a, b) = 0 /\ SortCompare(cmp, b, c) < 0)
              => SortCompare(cmp, a, c) < 0
        /\ (SortCompare(cmp, a, b) < 0 /\ SortCompare(cmp, b, c) = 0)
              => SortCompare(cmp, a, c) < 0

\* Insertion that puts x before the elements it compares equal to
RECURSIVE UnstableInsert(_, _, _)
UnstableInsert(cmp, s, x) ==
    IF s = <<>> THEN <<x>>
    ELSE IF SortCompare(cmp, s[Len(s)], x) >= 0
         THEN Append(UnstableInsert(cmp, SubSeq(s, 1, Len(s) - 1), x), s[Len(s)])
         ELSE Append(s, x)

\* Stable insertion of x into the sorted sequence s
RECURSIVE Insert(_, _, _)
Insert(cmp, s, x) ==
    IF s = <<>> THEN <<x>>
    ELSE IF SortCompare(cmp, s[Len(s)], x) > 0
         THEN Append(Insert(cmp, SubSeq(s, 1, Len(s) - 1), x), s[Len(s)])
         ELSE Append(s, x)

RECURSIVE StableSort(_, _)
StableSort(cmp, s) ==
    IF s = <<>> THEN <<>>
    ELSE Insert(cmp, StableSort(cmp, SubSeq(s, 1, Len(s) - 1)), s[Len(s)])

SeqPermutations(s) ==
    { [i \in 1..Len(s) |-> s[p[i]]] :
        p \in { q \in [1..Len(s) -> 1..Len(s)] :
                  \A i, j \in 1..Len(s) : q[i] = q[j] => i = j } }

\* The orders Array.prototype.sort may leave: the stable sorted order when
\* the comparator is consistent, an implementation-defined order otherwise.
SortOutcomes(cmp, s) ==
    IF ConsistentComparator(cmp, s) THEN { StableSort(cmp, s) }
    ELSE SeqPermutations(s)

\* A sequence without its repeated elements (first occurrences kept)
RECURSIVE Dedup(_)
Dedup(s) ==
    IF s = <<>> THEN <<>>
    ELSE LET front == Dedup(SubSeq(s, 1, Len(s) - 1))
         IN  IF s[Len(s)] \in Elems(front) THEN front ELSE Append(front, s[Len(s)])

\* arr.sort(cmp) without the copy: `arr` itself is reordered
InPlaceSort(arr, outcome) == [receiver |-> outcome, sorted |-> outcome]
\* [...new Set(arr)].sort(cmp): the copy loses repeated elements
DedupSpreadSort(arr, outcome) == [receiver |-> arr, sorted |-> Dedup(outcome)]
\* [...arr].sort(cmp): the copy is sorted, and `arr` keeps its order
SpreadSort(arr, outcome) == [receiver |-> arr, sorted |-> outcome]

\* JSON.stringify of one array element: a string is quoted, a finite number
\* is written out, NaN is written null
stringifyName(s) == "\"" \o s \o "\""
stringifyNumber(x) == IF x.nan THEN "null" ELSE ToString(x.v)

\* JSON.stringify of an array, as the sequence of its elements' texts (the
\* array text is these joined by commas, which no element's text contains
\* outside quotes)
JSONstringifyNames(arr) == [i \in 1..Len(arr) |-> stringifyName(arr[i])]
JSONstringifyNumbers(arr) == [i \in 1..Len(arr) |-> stringifyNumber(arr[i])]

\* a === b on two distinct arrays
ReferenceEqual(a, b) == FALSE
\* JSON.stringify(a) === JSON.stringify(b)
SameJSON(a, b) == a = b

(***************************************************************************)
(* The ordering checks of InventoryPage                                    *)
(***************************************************************************)
NameCheck(cmp) ==
    \E outcome \in SortOutcomes(cmp, getProductNames(pageItems)) :
        LET call == SpreadSort(getProductNames(pageItems), outcome)
        IN  /\ names' = call.receiver
            /\ sortedNames' = call.sorted
            /\ result' = SameJSON(JSONstringifyNames(call.receiver),
                                  JSONstringifyNames(call.sorted))
            /\ lastCheck' = cmp
            /\ UNCHANGED <<pageItems, prices, sortedPrices>>
            /\ UNCHANGED compareVars
            /\ UNCHANGED totalsVars
            /\ UNCHANGED scenarioVars

PriceCheck(cmp) ==
    \E outcome \in SortOutcomes(cmp, getProductPrices(pageItems)) :
        LET call == SpreadSort(getProductPrices(pageItems), outcome)
        IN  /\ prices' = call.receiver
            /\ sortedPrices' = call.sorted
            /\ result' = SameJSON(JSONstringifyNumbers(call.receiver),
                                  JSONstringifyNumbers(call.sorted))
            /\ lastCheck' = cmp
            /\ UNCHANGED <<pageItems, names, sortedNames>>
            /\ UNCHANGED compareVars
            /\ UNCHANGED totalsVars
            /\ UNCHANGED scenarioVars

areProductsSortedAZ == NameCheck("AZ")
areProductsSortedZA == NameCheck("ZA")
areProductsSortedByPriceLowToHigh == PriceCheck("LOHI")
areProductsSortedByPriceHighToLow == PriceCheck("HILO")

(***************************************************************************)
(* The expected-order comparison of the sorting tests                      *)
(***************************************************************************)
\* Names an expected reference list may hold
ExpectedNames == { "Apple", "Mango", "Zebra" }

\* A comparison that ignores positions
SameElements(received, wanted) == Elems(received) = Elems(wanted)
\* expect(received).toEqual(wanted) on two arrays of strings: equal lengths
\* and equal elements index by index
toEqual(received, wanted) ==
    /\ Len(received) = Len(wanted)
    /\ \A i \in 1..Len(received) : received[i] = wanted[i]

\* const productNames = await inventoryPage.getProductNames();
\* expect(productNames).toEqual(SORT_ORDERS.<order>);
ExpectNamesToEqual ==
    /\ productNames' = getProductNames(pageItems)
    /\ compared' = TRUE
    /\ matched' = toEqual(getProductNames(pageItems), expected)
    /\ UNCHANGED <<pageItems, expected>>
    /\ UNCHANGED orderingVars
    /\ UNCHANGED totalsVars
    /\ UNCHANGED scenarioVars

(***************************************************************************)
(* Specification of the sorting scenarios                                  *)
(***************************************************************************)
NoTotals ==
    /\ subtotal = 0 /\ tax = 0 /\ total = 0 /\ rate = 8
    /\ totalsCheck = "none" /\ expectedTax = 0
    /\ taxValid = FALSE /\ totalValid = FALSE

\* The scenarios of the other specifications have not started
Scenarios == { 1, 2 }
NoVerdict == [check |-> "none", read |-> <<>>, result |-> FALSE]
NoShared ==
    /\ pages = [sc \in Scenarios |-> <<>>]
    /\ verdicts = [sc \in Scenarios |-> NoVerdict]

\* No sorting test has started: the dropdown shows its first option
NoSort ==
    /\ selected = "az" /\ renderPending = FALSE
    /\ sortPc = "idle" /\ returnedOption = "none"
    /\ sortCount = 0 /\ tcPhase = "sorting"
    /\ readPrices = <<>>

\* No screenshot has been asked for
NoEvidence == shots = 0 /\ shotFailed = FALSE

\* The cart is empty and no cart test has started
NoCart ==
    /\ cartRows = <<>> /\ requested = {}
    /\ cartThrown = FALSE /\ lastCartOp = "none"
    /\ cartCount = 0 /\ countSource = "none"
    /\ cartItemNames = <<>> /\ namesRead = FALSE

\* No checkout test has started
NoCheckout ==
    /\ url = "about:blank" /\ tcStep = "none"
    /\ trail = <<>> /\ overviewItems = <<>>

NoScenario == NoShared /\ NoSort /\ NoEvidence /\ NoCart /\ NoCheckout

NoOrdering ==
    /\ lastCheck = "none"
    /\ names = <<>> /\ sortedNames = <<>>
    /\ prices = <<>> /\ sortedPrices = <<>>
    /\ result = FALSE
    /\ productNames = <<>>
    /\ compared = FALSE /\ matched = FALSE

Init ==
    /\ pageItems \in SeqsUpTo(Catalog, MaxItems)
    /\ expected = <<>>
    /\ NoOrdering
    /\ NoScenario
    /\ NoTotals

Next ==
    \/ areProductsSortedAZ
    \/ areProductsSortedZA
    \/ areProductsSortedByPriceLowToHigh
    \/ areProductsSortedByPriceHighToLow

Spec == Init /\ [][Next]_vars

(***************************************************************************)
(* Specification of a sorting test that checks the order of the names and  *)
(* compares them with a reference list (TC_01, TC_03); the reference list  *)
(* is a fixture of the test data, fixed before the test runs.              *)
(***************************************************************************)
InitCompare ==
    /\ pageItems \in SeqsUpTo(Catalog, MaxItems)
    /\ expected \in SeqsUpTo(ExpectedNames, MaxExpected)
    /\ NoOrdering
    /\ NoScenario
    /\ NoTotals

\* TC_01: const sortedZA = await inventoryPage.areProductsSortedZA();
TC_01_CheckOrder == lastCheck = "none" /\ areProductsSortedZA

\* TC_03: const sortedAZ = await inventoryPage.areProductsSortedAZ();
TC_03_CheckOrder == lastCheck = "none" /\ areProductsSortedAZ

\* TC_01, TC_03: the comparison with the reference list follows the order
\* check and ends the test
TC_CompareWithExpected == lastCheck \in { "AZ", "ZA" } /\ ~compared /\ ExpectNamesToEqual

NextCompare ==
    \/ TC_01_CheckOrder
    \/ TC_03_CheckOrder
    \/ TC_CompareWithExpected

SpecCompare == InitCompare /\ [][NextCompare]_vars

(***************************************************************************)
(* The totals checks of the checkout overview (called by TC_08).  Amounts  *)
(* are in cents, the rate in percent.                                      *)
(***************************************************************************)
MaxCents == 10      \* largest of the small amounts tried

\* The tolerance of the totals checks: one cent
Tolerance == 1

\* Tax rates tried; TC_08 checks a tax of 8% of the subtotal
Rates == { 5, 8 }

\* Amounts an overview page may show
Amounts == (0..MaxCents) \cup { 800, 801, 850, 10000, 10798, 10800 }

Abs(n) == IF n < 0 THEN -n ELSE n

\* n/d rounded to an integer, a half going to the even neighbour
RoundHalfEven(n, d) ==
    LET q == n \div d
        r == n % d
    IN  IF 2 * r > d \/ (2 * r = d /\ q % 2 = 1) THEN q + 1 ELSE q

\* n/d rounded to an integer, a half going away from zero (d > 0)
RoundHalfAwayFromZero(n, d) ==
    IF n >= 0 THEN (2 * n + d) \div (2 * d)
    ELSE -((2 * (-n) + d) \div (2 * d))

\* A difference below the tolerance, the tolerance itself excluded
StrictlyWithinTolerance(a, b) == Abs(a - b) < Tolerance
\* abs(a - b) <= 0.01
WithinTolerance(a, b) == Abs(a - b) <= Tolerance

\* The outcome of a totals check that got a negative amount
InvalidAmount == "InvalidAmount"

\* validateTax(subtotal, observedTax, rate)
validateTaxCalculation ==
    /\ IF subtotal < 0 \/ tax < 0
       THEN /\ totalsCheck' = InvalidAmount
            /\ UNCHANGED <<expectedTax, taxValid>>
       ELSE /\ expectedTax' = RoundHalfAwayFromZero(subtotal * rate, 100)
            /\ taxValid' = WithinTolerance(RoundHalfAwayFromZero(subtotal * rate, 100), tax)
            /\ totalsCheck' = "tax"
    /\ UNCHANGED <<subtotal, tax, total, rate, totalValid>>
    /\ UNCHANGED pageItems
    /\ UNCHANGED orderingVars
    /\ UNCHANGED compareVars
    /\ UNCHANGED scenarioVars

\* A sum that leaves the tax out
SubtotalOnly(s, t) == s
\* subtotal + tax
ExpectedTotal(s, t) == s + t

\* validateTotal(subtotal, tax, observedTotal)
validateTotalCalculation ==
    /\ IF subtotal < 0 \/ tax < 0 \/ total < 0
       THEN /\ totalsCheck' = InvalidAmount
            /\ UNCHANGED totalValid
       ELSE /\ totalValid' = WithinTolerance(ExpectedTotal(subtotal, tax), total)
            /\ totalsCheck' = "total"
    /\ UNCHANGED <<subtotal, tax, total, rate, expectedTax, taxValid>>
    /\ UNCHANGED pageItems
    /\ UNCHANGED orderingVars
    /\ UNCHANGED compareVars
    /\ UNCHANGED scenarioVars

InitTotals ==
    /\ pageItems = <<>>
    /\ expected = <<>>
    /\ NoOrdering
    /\ NoScenario
    /\ subtotal \in Amounts
    /\ tax \in Amounts
    /\ total \in Amounts
    /\ rate \in Rates
    /\ totalsCheck = "none" /\ expectedTax = 0
    /\ taxValid = FALSE /\ totalValid = FALSE

NextTotals ==
    \/ validateTaxCalculation
    \/ validateTotalCalculation

SpecTotals == InitTotals /\ [][NextTotals]_vars

(***************************************************************************)
(* Specification of the checks on a page that shows a negative amount      *)
(***************************************************************************)
\* A page with a negative price text among its items
SignedCatalog ==
    { [name |-> "Apple", price |-> "$7.99"],
      [name |-> "Zebra", price |-> "$-5.00"],
      [name |-> " Mango ", price |-> "$15.99"] }

\* Amounts an overview page may show, a negative one among them
SignedAmounts == { -500, 0, 799 }

InitAmounts ==
    /\ pageItems \in SeqsUpTo(SignedCatalog, MaxItems)
    /\ expected = <<>>
    /\ NoOrdering
    /\ NoScenario
    /\ subtotal \in SignedAmounts
    /\ tax \in SignedAmounts
    /\ total \in SignedAmounts
    /\ rate = 8
    /\ totalsCheck = "none" /\ expectedTax = 0
    /\ taxValid = FALSE /\ totalValid = FALSE

NextAmounts ==
    \/ areProductsSortedByPriceLowToHigh
    \/ areProductsSortedByPriceHighToLow
    \/ validateTaxCalculation
    \/ validateTotalCalculation

SpecAmounts == InitAmounts /\ [][NextAmounts]_vars

(***************************************************************************)
(* Specification of the checks on a page with texts that need              *)
(* normalization: padded, blank and empty names, prices without a number   *)
(***************************************************************************)
RawCatalog ==
    { [name |-> "Apple",   price |-> "$7.99"],
      [name |-> " Mango ", price |-> "$15.99"],
      [name |-> " ",       price |-> "N/A"],
      [name |-> "",        price |-> ""] }

InitNormalize ==
    /\ pageItems \in SeqsUpTo(RawCatalog, MaxItems)
    /\ expected = <<>>
    /\ NoOrdering
    /\ NoScenario
    /\ NoTotals

SpecNormalize == InitNormalize /\ [][Next]_vars

(***************************************************************************)
(* Specification of several scenarios running checks concurrently, each    *)
(* test with the page of its own browser session and its own InventoryPage *)
(***************************************************************************)
MaxShared == 2      \* products shown on the page of a concurrent scenario

\* Pages whose prices all parse
SharedCatalog ==
    { [name |-> "Apple",   price |-> "$7.99"],
      [name |-> "Zebra",   price |-> "$15.99"],
      [name |-> " Mango ", price |-> "$29.99"] }

\* A page held in one place for all the scenarios
SharedPage(sc, ps) == ps[1]
\* this.page of the scenario's page object
PageOf(sc, ps) == ps[sc]

\* What a check reads from the page: the names or the prices
ReadFor(cmp, items) ==
    IF cmp \in { "AZ", "ZA" } THEN getProductNames(items) ELSE getProductPrices(items)

StringifyFor(cmp, arr) ==
    IF cmp \in { "AZ", "ZA" } THEN JSONstringifyNames(arr) ELSE JSONstringifyNumbers(arr)

\* areProductsSorted* called by scenario sc on its page object
ScenarioCheck(sc, cmp) ==
    \E outcome \in SortOutcomes(cmp, ReadFor(cmp, PageOf(sc, pages))) :
        LET call == SpreadSort(ReadFor(cmp, PageOf(sc, pages)), outcome)
        IN  /\ verdicts' = [verdicts EXCEPT ![sc] =
                              [check |-> cmp,
                               read |-> StringifyFor(cmp, call.receiver),
                               result |-> SameJSON(StringifyFor(cmp, call.receiver),
                                                   StringifyFor(cmp, call.sorted))]]
            /\ UNCHANGED pages
            /\ UNCHANGED sortVars
            /\ UNCHANGED evidenceVars
            /\ UNCHANGED cartVars
            /\ UNCHANGED checkoutVars
            /\ UNCHANGED pageItems
            /\ UNCHANGED orderingVars
            /\ UNCHANGED compareVars
            /\ UNCHANGED totalsVars

ScenarioNameCheck == \E sc \in Scenarios, cmp \in { "AZ", "ZA" } : ScenarioCheck(sc, cmp)
ScenarioPriceCheck == \E sc \in Scenarios, cmp \in { "LOHI", "HILO" } : ScenarioCheck(sc, cmp)

InitShared ==
    /\ pageItems = <<>>
    /\ expected = <<>>
    /\ NoOrdering
    /\ NoTotals
    /\ pages \in [Scenarios -> SeqsUpTo(SharedCatalog, MaxShared)]
    /\ verdicts = [sc \in Scenarios |-> NoVerdict]
    /\ NoSort
    /\ NoEvidence
    /\ NoCart
    /\ NoCheckout

NextShared ==
    \/ ScenarioNameCheck
    \/ ScenarioPriceCheck

SpecShared == InitShared /\ [][NextShared]_vars

(***************************************************************************)
(* Specification of a sorting test (TC_01 .. TC_04): calls of              *)
(* sortProductsBy, then the extraction, then the matching order check.     *)
(* The page re-renders its list on its own, some time after an option is   *)
(* selected.                                                               *)
(***************************************************************************)
MaxInventory == 3   \* products of the inventory
MaxSorts == 2       \* sortProductsBy calls of a test

\* enum SortOption
SortOptions == { "az", "za", "lohi", "hilo" }

\* The order an option asks for, as the comparator of the matching check
CmpOf(option) ==
    CASE option = "az" -> "AZ"
      [] option = "za" -> "ZA"
      [] option = "lohi" -> "LOHI"
      [] option = "hilo" -> "HILO"

\* The products of the inventory
SortCatalog ==
    { [name |-> "Apple",   price |-> "$7.99"],
      [name |-> "Mango",   price |-> "$15.99"],
      [name |-> "Zebra",   price |-> "$15.99"],
      [name |-> "Zoe_NFC", price |-> "$29.99"] }

\* What the page orders an item by under an option
KeyOf(option, item) ==
    IF option \in { "az", "za" } THEN trim(item.name)
    ELSE parseFloat(replaceDollar(item.price))

RECURSIVE InsertItem(_, _, _)
InsertItem(option, s, x) ==
    IF s = <<>> THEN <<x>>
    ELSE IF SortCompare(CmpOf(option), KeyOf(option, s[Len(s)]), KeyOf(option, x)) > 0
         THEN Append(InsertItem(option, SubSeq(s, 1, Len(s) - 1), x), s[Len(s)])
         ELSE Append(s, x)

\* The list as the page shows it once it has re-rendered for an option
RECURSIVE PageOrder(_, _)
PageOrder(option, items) ==
    IF items = <<>> THEN <<>>
    ELSE InsertItem(option, PageOrder(option, SubSeq(items, 1, Len(items) - 1)),
                    items[Len(items)])

\* The page re-renders its list for the selected option: it sorts its
\* products, which it keeps from A to Z, by that option
PageRender ==
    /\ renderPending
    /\ pageItems' = PageOrder(selected, PageOrder("az", pageItems))
    /\ renderPending' = FALSE
    /\ UNCHANGED <<selected, sortPc, returnedOption, sortCount, tcPhase, readPrices>>
    /\ UNCHANGED sharedVars
    /\ UNCHANGED evidenceVars
    /\ UNCHANGED cartVars
    /\ UNCHANGED checkoutVars
    /\ UNCHANGED orderingVars
    /\ UNCHANGED compareVars
    /\ UNCHANGED totalsVars

\* sortProductsBy(option), up to the wait:
\*   await this.sortDropdown.selectOption(`name-${option}`);
sortProductsBy_Select ==
    \E option \in SortOptions :
        /\ tcPhase = "sorting" /\ sortPc = "idle" /\ sortCount < MaxSorts
        /\ selected' = option
        /\ renderPending' = TRUE
        /\ sortPc' = "waiting"
        /\ returnedOption' = "none"
        /\ sortCount' = sortCount + 1
        /\ UNCHANGED <<tcPhase, readPrices>>
        /\ UNCHANGED pageItems
        /\ UNCHANGED sharedVars
        /\ UNCHANGED evidenceVars
        /\ UNCHANGED cartVars
        /\ UNCHANGED checkoutVars
        /\ UNCHANGED orderingVars
        /\ UNCHANGED compareVars
        /\ UNCHANGED totalsVars

\* sortProductsBy(option), the end of the wait: the call returns when the
\* 300 ms have passed, whatever the page has done meanwhile
\*   await this.page.waitForTimeout(300);
sortProductsBy_Return ==
    /\ sortPc = "waiting"
    /\ sortPc' = "idle"
    /\ returnedOption' = selected
    /\ UNCHANGED <<selected, renderPending, sortCount, tcPhase, readPrices>>
    /\ UNCHANGED pageItems
    /\ UNCHANGED sharedVars
    /\ UNCHANGED evidenceVars
    /\ UNCHANGED cartVars
    /\ UNCHANGED checkoutVars
    /\ UNCHANGED orderingVars
    /\ UNCHANGED compareVars
    /\ UNCHANGED totalsVars

\* The extraction of a sorting test after its last sortProductsBy:
\*   const prices = await inventoryPage.getProductPrices();
\*   const productNames = await inventoryPage.getProductNames();
TC_ReadProducts ==
    /\ tcPhase = "sorting" /\ sortPc = "idle" /\ returnedOption # "none"
    /\ productNames' = getProductNames(pageItems)
    /\ readPrices' = getProductPrices(pageItems)
    /\ tcPhase' = "read"
    /\ UNCHANGED <<selected, renderPending, sortPc, returnedOption, sortCount>>
    /\ UNCHANGED <<expected, compared, matched>>
    /\ UNCHANGED pageItems
    /\ UNCHANGED sharedVars
    /\ UNCHANGED evidenceVars
    /\ UNCHANGED cartVars
    /\ UNCHANGED checkoutVars
    /\ UNCHANGED orderingVars
    /\ UNCHANGED totalsVars

\* The order check matching the option sorted by last, e.g.
\*   const sortedAZ = await inventoryPage.areProductsSortedAZ();
TC_CheckSortedOrder ==
    /\ tcPhase = "read" /\ lastCheck = "none"
    /\ \/ returnedOption \in { "az", "za" } /\ NameCheck(CmpOf(returnedOption))
       \/ returnedOption \in { "lohi", "hilo" } /\ PriceCheck(CmpOf(returnedOption))

Distinct(s) == \A i, j \in 1..Len(s) : s[i] = s[j] => i = j

\* After login the inventory shows its products in the default order, A to Z
InitSort ==
    /\ pageItems \in { s \in SeqsUpTo(SortCatalog, MaxInventory) :
                          Distinct(s) /\ PageOrder("az", s) = s }
    /\ expected = <<>>
    /\ NoOrdering
    /\ NoTotals
    /\ NoShared
    /\ NoSort
    /\ NoEvidence
    /\ NoCart
    /\ NoCheckout

NextSort ==
    \/ sortProductsBy_Select
    \/ sortProductsBy_Return
    \/ PageRender
    \/ TC_ReadProducts
    \/ TC_CheckSortedOrder

SpecSort == InitSort /\ [][NextSort]_vars

(***************************************************************************)
(* Specification of TC_01 with its screenshots: screenshot, sort Z to A,   *)
(* screenshot, read the names, check the order, compare with the reference *)
(* list.  A step that throws ends the test.                                *)
(***************************************************************************)
\* BasePage.takeScreenshot(name): page.screenshot writes the file or throws;
\* the test awaits it outside any try
takeScreenshot ==
    /\ ~shotFailed /\ sortPc = "idle" /\ tcPhase = "sorting"
    /\ \/ shots = 0 /\ sortCount = 0
       \/ shots = 1 /\ returnedOption # "none"
    /\ \E written \in BOOLEAN :
          /\ shots' = shots + 1
          /\ shotFailed' = ~written
    /\ UNCHANGED pageItems
    /\ UNCHANGED sharedVars
    /\ UNCHANGED sortVars
    /\ UNCHANGED cartVars
    /\ UNCHANGED checkoutVars
    /\ UNCHANGED orderingVars
    /\ UNCHANGED compareVars
    /\ UNCHANGED totalsVars

\* await inventoryPage.sortProductsBy(SortOption.ZA);
TC_01_Sort ==
    /\ shots = 1 /\ ~shotFailed /\ sortCount = 0
    /\ sortProductsBy_Select
    /\ selected' = "za"

\* const productNames = await inventoryPage.getProductNames();
TC_01_Read == shots = 2 /\ ~shotFailed /\ TC_ReadProducts

\* const sortedZA = await inventoryPage.areProductsSortedZA();
TC_01_CheckAfterRead == tcPhase = "read" /\ TC_01_CheckOrder

\* expect(sortedZA).toBeTruthy();
\* expect(productNames).toEqual(SORT_ORDERS.ALPHABETICAL_ZA);
TC_01_Compare ==
    /\ tcPhase = "read" /\ lastCheck = "ZA" /\ result /\ ~compared
    /\ compared' = TRUE
    /\ matched' = toEqual(productNames, expected)
    /\ UNCHANGED <<pageItems, expected, productNames>>
    /\ UNCHANGED orderingVars
    /\ UNCHANGED totalsVars
    /\ UNCHANGED scenarioVars

\* How the test has ended, if it has
TestOutcome ==
    IF shotFailed THEN "failed"
    ELSE IF lastCheck # "none" /\ ~result THEN "failed"
    ELSE IF compared THEN (IF matched THEN "passed" ELSE "failed")
    ELSE "running"

\* SORT_ORDERS.ALPHABETICAL_ZA: the names of the inventory from Z to A
InitEvidence ==
    /\ pageItems \in { s \in SeqsUpTo(SortCatalog, MaxInventory) :
                          Distinct(s) /\ PageOrder("az", s) = s }
    /\ expected = getProductNames(PageOrder("za", pageItems))
    /\ NoOrdering
    /\ NoTotals
    /\ NoScenario

NextEvidence ==
    \/ takeScreenshot
    \/ TC_01_Sort
    \/ sortProductsBy_Return
    \/ PageRender
    \/ TC_01_Read
    \/ TC_01_CheckAfterRead
    \/ TC_01_Compare

SpecEvidence == InitEvidence /\ [][NextEvidence]_vars

(***************************************************************************)
(* Specification of the cart tests (TC_05 .. TC_07): products are added    *)
(* from the inventory page and removed on the cart page, and the tests     *)
(* read the badge, the rows of the cart page and their names.  The page    *)
(* lists the products of the cart in the order they were added and shows   *)
(* a badge with their number while there is one.  Moving between the two   *)
(* pages (openCart, Continue Shopping) leaves the cart alone and is not    *)
(* modelled.                                                               *)
(***************************************************************************)
MaxAdd == 2         \* names passed to one addProductsToCart call

\* The names of the products of the inventory
CartCatalog == { "Apple", "Apple Pie", "Mango" }

\* locator(.., { hasText: text }): the element's text contains the text
ContainsText(name, text) ==
    \/ name = text
    \/ name = "Apple Pie" /\ text = "Apple"

\* The products whose "Add to cart" button the locator of
\* addProductToCartByName resolves to; a product in the cart shows "Remove"
AddButtons(rows, productName) ==
    { n \in CartCatalog : ContainsText(n, productName) /\ n \notin Elems(rows) }

\* addProductToCartByName(productName): click() needs the locator to
\* resolve to one element, else it throws
addProductToCartByName(st, productName) ==
    IF st.thrown THEN st
    ELSE LET buttons == AddButtons(st.rows, productName)
         IN  IF Cardinality(buttons) = 1
             THEN [rows |-> Append(st.rows, CHOOSE n \in buttons : TRUE),
                   requested |-> st.requested \cup { productName },
                   thrown |-> FALSE]
             ELSE [st EXCEPT !.thrown = TRUE]

\* addProductsToCart(productNames): for (const name of productNames) ...
RECURSIVE addProductsToCart(_, _)
addProductsToCart(st, toAdd) ==
    IF toAdd = <<>> THEN st
    ELSE addProductsToCart(addProductToCartByName(st, Head(toAdd)),
                           Tail(toAdd))

\* The tests' variables no longer describe the cart once it has changed
CartChanged ==
    /\ cartCount' = 0 /\ countSource' = "none"
    /\ cartItemNames' = <<>> /\ namesRead' = FALSE

OtherThanCart ==
    /\ UNCHANGED pageItems
    /\ UNCHANGED orderingVars
    /\ UNCHANGED compareVars
    /\ UNCHANGED totalsVars
    /\ UNCHANGED sharedVars
    /\ UNCHANGED sortVars
    /\ UNCHANGED evidenceVars
    /\ UNCHANGED checkoutVars

\* await inventoryPage.addProductsToCart(CART_PRODUCTS);
TC_AddProductsToCart ==
    \E toAdd \in SeqsUpTo(CartCatalog, MaxAdd) :
        LET st == addProductsToCart([rows |-> cartRows, requested |-> requested,
                                     thrown |-> FALSE], toAdd)
        IN  /\ ~cartThrown
            /\ cartRows' = st.rows
            /\ requested' = st.requested
            /\ cartThrown' = st.thrown
            /\ lastCartOp' = "add"
            /\ CartChanged
            /\ OtherThanCart

RECURSIVE Without(_, _)
Without(s, x) ==
    IF s = <<>> THEN <<>>
    ELSE IF Head(s) = x THEN Without(Tail(s), x)
    ELSE <<Head(s)>> \o Without(Tail(s), x)

\* await cartPage.removeProductByName(productToRemove): the product leaves
\* the cart; the call throws when the cart does not list it
removeProductByName ==
    \E productName \in CartCatalog :
        /\ ~cartThrown
        /\ IF productName \in Elems(cartRows)
           THEN /\ cartRows' = Without(cartRows, productName)
                /\ requested' = requested \ { productName }
                /\ cartThrown' = FALSE
           ELSE /\ cartThrown' = TRUE
                /\ UNCHANGED <<cartRows, requested>>
        /\ lastCartOp' = "remove"
        /\ CartChanged
        /\ OtherThanCart

\* The page: the badge is shown while the cart holds a product
BadgeVisible(rows) == rows # <<>>

\* The page: the text of the badge is the number of products in the cart
BadgeText(rows) ==
    CASE Len(rows) = 1 -> "1"
      [] Len(rows) = 2 -> "2"
      [] Len(rows) = 3 -> "3"
      [] OTHER -> NullText

\* parseInt(badgeText, 10); -1 stands for NaN
parseInt(t) ==
    CASE t = "1" -> 1
      [] t = "2" -> 2
      [] t = "3" -> 3
      [] OTHER -> -1

\* A variant of BasePage.getCartItemCount without the visibility test
BadgeCountWithoutDefault(rows) == parseInt(BadgeText(rows))

\* BasePage.getCartItemCount()
BasePage_getCartItemCount(rows) ==
    IF ~BadgeVisible(rows) THEN 0
    ELSE IF Truthy(BadgeText(rows)) THEN parseInt(BadgeText(rows)) ELSE 0

\* CartPage.getCartItemCount(): this.cartItems.count()
CartPage_getCartItemCount(rows) == Len(rows)

\* CartPage.getCartItemNames()
RECURSIVE getCartItemNames(_)
getCartItemNames(rows) ==
    IF rows = <<>> THEN <<>>
    ELSE LET name == Head(rows)
         IN  (IF Truthy(name) THEN <<trim(name)>> ELSE <<>>)
             \o getCartItemNames(Tail(rows))

\* TC_05: const cartCount = await inventoryPage.getCartItemCount();
TC_05_ReadBadge ==
    /\ ~cartThrown
    /\ cartCount' = BasePage_getCartItemCount(cartRows)
    /\ countSource' = "badge"
    /\ UNCHANGED <<cartRows, requested, cartThrown, lastCartOp, cartItemNames, namesRead>>
    /\ OtherThanCart

\* TC_07: cartCount = await cartPage.getCartItemCount();
TC_07_ReadCartCount ==
    /\ ~cartThrown
    /\ cartCount' = CartPage_getCartItemCount(cartRows)
    /\ countSource' = "rows"
    /\ UNCHANGED <<cartRows, requested, cartThrown, lastCartOp, cartItemNames, namesRead>>
    /\ OtherThanCart

\* TC_06: const cartItemNames = await cartPage.getCartItemNames();
TC_06_ReadCartNames ==
    /\ ~cartThrown
    /\ cartItemNames' = getCartItemNames(cartRows)
    /\ namesRead' = TRUE
    /\ UNCHANGED <<cartRows, requested, cartThrown, lastCartOp, cartCount, countSource>>
    /\ OtherThanCart

InitCart ==
    /\ pageItems = <<>>
    /\ expected = <<>>
    /\ NoOrdering
    /\ NoTotals
    /\ NoScenario

NextCart ==
    \/ TC_AddProductsToCart
    \/ removeProductByName
    \/ TC_05_ReadBadge
    \/ TC_07_ReadCartCount
    \/ TC_06_ReadCartNames

SpecCart == InitCart /\ [][NextCart]_vars

(***************************************************************************)
(* Specification of the checkout test TC_08 with its beforeEach: log in,   *)
(* add products, open the cart, proceed to checkout, complete the customer *)
(* information, read and validate the overview, finish the order, expect   *)
(* the confirmation page.  The statements run in the order of the source;  *)
(* one that throws, or an expectation that fails, ends the test.  A click  *)
(* on a control that the page shown does not have throws.                  *)
(***************************************************************************)
\* The url of the order-confirmation page
ConfirmationUrl == "checkout-complete"

\* A variant of LoginPage whose navigate() goes to the confirmation page
DirectToConfirmation == ConfirmationUrl

\* LoginPage: super(page, '/'), the url that navigate() goes to
LoginUrl == "login"

\* Totals an overview page may show
OverviewTotals ==
    { [subtotal |-> 800,   tax |-> 64,  total |-> 864],
      [subtotal |-> 800,   tax |-> 64,  total |-> 800],
      [subtotal |-> 10000, tax |-> 500, total |-> 10500],
      [subtotal |-> 10000, tax |-> 800, total |-> 10800] }

OtherThanCheckout ==
    /\ UNCHANGED pageItems
    /\ UNCHANGED orderingVars
    /\ UNCHANGED compareVars
    /\ UNCHANGED totalsVars
    /\ UNCHANGED sharedVars
    /\ UNCHANGED sortVars
    /\ UNCHANGED evidenceVars
    /\ UNCHANGED cartVars

\* A statement of the test has run: the page it leaves, the step it
\* completed if any, and the statement that follows
Step(page, done, next) ==
    /\ url' = page
    /\ trail' = IF done = "" THEN trail ELSE Append(trail, done)
    /\ tcStep' = next
    /\ UNCHANGED overviewItems
    /\ OtherThanCheckout

\* beforeEach: await loginPage.navigate();  -- page.goto(this.url)
LoginPage_navigate ==
    /\ tcStep = "navigate"
    /\ Step(LoginUrl, "", "login")

\* beforeEach: await loginPage.login(username, password);
\* the site shows the inventory when it accepts the credentials
LoginPage_login ==
    /\ tcStep = "login"
    /\ \E accepted \in BOOLEAN :
          IF url # "login" THEN Step(url, "", "failed")
          ELSE IF accepted THEN Step("inventory", "login", "expectInventory")
          ELSE Step("login", "", "expectInventory")

\* beforeEach: await expect(page).toHaveURL(/.*inventory.html/);
beforeEach_ExpectInventory ==
    /\ tcStep = "expectInventory"
    /\ Step(url, "", IF url = "inventory" THEN "addProductsToCart" ELSE "failed")

\* await inventoryPage.addProductsToCart(CART_PRODUCTS);
TC_08_AddProductsToCart ==
    /\ tcStep = "addProductsToCart" /\ lastCartOp = "none"
    /\ TC_AddProductsToCart

\* await inventoryPage.openCart();  -- this.shoppingCart.click()
openCart ==
    /\ tcStep = "addProductsToCart" /\ lastCartOp = "add" /\ ~cartThrown
    /\ Step("cart", "openCart", "proceedToCheckout")

\* await cartPage.proceedToCheckout();  -- the Checkout button of the cart page
proceedToCheckout ==
    /\ tcStep = "proceedToCheckout"
    /\ IF url = "cart"
       THEN Step("checkout-step-one", "proceedToCheckout", "completeCheckoutInfo")
       ELSE Step(url, "", "failed")

\* await checkoutInfoPage.completeCheckoutInfo(firstName, lastName, postalCode);
\* the site shows the overview when it accepts the information
completeCheckoutInfo ==
    /\ tcStep = "completeCheckoutInfo"
    /\ \E accepted \in BOOLEAN :
          IF url # "checkout-step-one" THEN Step(url, "", "failed")
          ELSE IF accepted
               THEN Step("checkout-step-two", "completeCheckoutInfo", "getItemNames")
               ELSE Step("checkout-step-one", "", "getItemNames")

\* const overviewItems = await checkoutOverviewPage.getItemNames();
\* expect(overviewItems).toHaveLength(CART_PRODUCTS.length);
\* for (const productName of CART_PRODUCTS) expect(overviewItems).toContain(productName);
TC_08_ReadOverview ==
    /\ tcStep = "getItemNames"
    /\ LET items == IF url = "checkout-step-two" THEN getCartItemNames(cartRows) ELSE <<>>
           asExpected == /\ Len(items) = Cardinality(requested)
                         /\ requested \subseteq Elems(items)
       IN  /\ overviewItems' = items
           /\ url' = url
           /\ trail' = IF url = "checkout-step-two" THEN Append(trail, "overview") ELSE trail
           /\ tcStep' = IF asExpected THEN "validate" ELSE "failed"
    /\ OtherThanCheckout

\* const taxCalculationValid = await checkoutOverviewPage.validateTaxCalculation();
TC_08_ValidateTax ==
    /\ tcStep = "validate" /\ totalsCheck = "none"
    /\ validateTaxCalculation

\* expect(taxCalculationValid).toBeTruthy();
\* const totalCalculationValid = await checkoutOverviewPage.validateTotalCalculation();
TC_08_ValidateTotal ==
    /\ tcStep = "validate" /\ totalsCheck = "tax" /\ taxValid
    /\ validateTotalCalculation

\* expect(totalCalculationValid).toBeTruthy();
\* await checkoutOverviewPage.finishOrder();  -- the Finish button of the overview
finishOrder ==
    /\ tcStep = "validate" /\ totalsCheck = "total" /\ totalValid
    /\ IF url = "checkout-step-two"
       THEN Step(ConfirmationUrl, "finishOrder", "expectComplete")
       ELSE Step(url, "", "failed")

\* await expect(page).toHaveURL(/.*checkout-complete.html/);
\* expect(thankYouMessage).toContain('Thank you for your order');
TC_08_ExpectComplete ==
    /\ tcStep = "expectComplete"
    /\ Step(url, "", IF url = ConfirmationUrl THEN "passed" ELSE "failed")

InitCheckout ==
    /\ pageItems = <<>>
    /\ expected = <<>>
    /\ NoOrdering
    /\ NoShared /\ NoSort /\ NoEvidence /\ NoCart
    /\ \E shown \in OverviewTotals :
          /\ subtotal = shown.subtotal /\ tax = shown.tax /\ total = shown.total
    /\ rate \in Rates
    /\ totalsCheck = "none" /\ expectedTax = 0
    /\ taxValid = FALSE /\ totalValid = FALSE
    /\ url = "about:blank" /\ tcStep = "navigate"
    /\ trail = <<>> /\ overviewItems = <<>>

NextCheckout ==
    \/ LoginPage_navigate
    \/ LoginPage_login
    \/ beforeEach_ExpectInventory
    \/ TC_08_AddProductsToCart
    \/ openCart
    \/ proceedToCheckout
    \/ completeCheckoutInfo
    \/ TC_08_ReadOverview
    \/ TC_08_ValidateTax
    \/ TC_08_ValidateTotal
    \/ finishOrder
    \/ TC_08_ExpectComplete

SpecCheckout == InitCheckout /\ [][NextCheckout]_vars

(***************************************************************************)
(* Properties of the ordering checks (specification Spec)                  *)
(***************************************************************************)
NameChecks == { "AZ", "ZA" }
PriceChecks == { "LOHI", "HILO" }

\* a <= b and a >= b on numbers: false when either is NaN
Leq(a, b) == ~a.nan /\ ~b.nan /\ a.v <= b.v
Geq(a, b) == ~a.nan /\ ~b.nan /\ a.v >= b.v

AdjacentPairs(s) == 1..(Len(s) - 1)
PairwiseAscending(s) == \A i \in AdjacentPairs(s) : Leq(s[i], s[i + 1])
PairwiseDescending(s) == \A i \in AdjacentPairs(s) : Geq(s[i], s[i + 1])
PairwiseAZ(s) == \A i \in AdjacentPairs(s) : localeCompare(s[i], s[i + 1]) <= 0
PairwiseZA(s) == \A i \in AdjacentPairs(s) : localeCompare(s[i], s[i + 1]) >= 0
NoNaN(s) == \A i \in 1..Len(s) : ~s[i].nan

\* C1: a price check returns true exactly when every adjacent pair of the
\* prices satisfies the direction (<= for low-to-high, >= for high-to-low).
C1_PriceCheckIffPairwise ==
    /\ lastCheck = "LOHI" => (result <=> PairwiseAscending(prices))
    /\ lastCheck = "HILO" => (result <=> PairwiseDescending(prices))

\* C1, on the prices that parsed: when no price is NaN, a price check returns
\* true exactly when every adjacent pair satisfies the direction.
C1_ParsedPricesIffPairwise ==
    /\ (lastCheck = "LOHI" /\ NoNaN(prices)) => (result <=> PairwiseAscending(prices))
    /\ (lastCheck = "HILO" /\ NoNaN(prices)) => (result <=> PairwiseDescending(prices))

\* C2: a name check returns true exactly when every adjacent pair of the
\* names is in non-decreasing (A-Z) or non-increasing (Z-A) order under
\* localeCompare; [Zebra, Apple, Mango] is rejected by the Z-A check and
\* [Zebra, Mango, Apple] is accepted.
C2_NameCheckIffPairwise ==
    /\ lastCheck = "AZ" => (result <=> PairwiseAZ(names))
    /\ lastCheck = "ZA" => (result <=> PairwiseZA(names))
    /\ (lastCheck = "ZA" /\ names = <<"Zebra", "Apple", "Mango">>) => ~result
    /\ (lastCheck = "ZA" /\ names = <<"Zebra", "Mango", "Apple">>) => result

C2_Witness ==
    /\ lastCheck = "ZA" /\ names = <<"Zebra", "Mango", "Apple">> /\ result
    /\ sortedNames = names

\* C3: each of the four checks returns true on a sequence of length 0 or 1.
C3_ShortSequencesPass ==
    /\ (lastCheck \in NameChecks /\ Len(names) <= 1) => result
    /\ (lastCheck \in PriceChecks /\ Len(prices) <= 1) => result

C3_Witness ==
    /\ lastCheck = "HILO" /\ Len(prices) = 1 /\ result
    /\ Len(names) = 1 /\ sortedNames = names

\* Adjacent elements that the comparison of the check reports as equal
HasPriceTie(s) == \E i \in AdjacentPairs(s) : ~s[i].nan /\ s[i] = s[i + 1]
HasNameTie(s) == \E i \in AdjacentPairs(s) : localeCompare(s[i], s[i + 1]) = 0
AllPricesEqual(s) == NoNaN(s) /\ \A i, j \in 1..Len(s) : s[i] = s[j]
AllNamesEqual(s) == \A i, j \in 1..Len(s) : localeCompare(s[i], s[j]) = 0

\* C4: ties are accepted in both directions: a sequence with equal adjacent
\* elements whose pairs all respect the direction passes the check of that
\* direction, and a sequence whose elements are all equal passes every check.
C4_TiesAccepted ==
    /\ (lastCheck = "LOHI" /\ HasPriceTie(prices) /\ PairwiseAscending(prices)) => result
    /\ (lastCheck = "HILO" /\ HasPriceTie(prices) /\ PairwiseDescending(prices)) => result
    /\ (lastCheck \in PriceChecks /\ AllPricesEqual(prices)) => result
    /\ (lastCheck = "AZ" /\ HasNameTie(names) /\ PairwiseAZ(names)) => result
    /\ (lastCheck = "ZA" /\ HasNameTie(names) /\ PairwiseZA(names)) => result
    /\ (lastCheck \in NameChecks /\ AllNamesEqual(names)) => result

C4_Witness ==
    /\ lastCheck = "HILO" /\ result
    /\ prices = <<Num(2999), Num(1599), Num(1599)>>

\* C5: a check leaves the sequence it read as it was read: after the check
\* the captured names (prices) are the page's names (prices) in page order.
C5_InputNotMutated ==
    /\ lastCheck \in NameChecks => names = getProductNames(pageItems)
    /\ lastCheck \in PriceChecks => prices = getProductPrices(pageItems)

C5_Witness ==
    /\ lastCheck = "LOHI" /\ ~result
    /\ prices = <<Num(1599), Num(799)>> /\ sortedPrices = <<Num(799), Num(1599)>>

(***************************************************************************)
(* Properties of the expected-order comparison (specification SpecCompare) *)
(***************************************************************************)
\* C6: the comparison with the reference list succeeds exactly when the two
\* sequences are the same sequence; the same elements in another order do
\* not match.
C6_PositionSensitiveEquality ==
    compared =>
        /\ productNames = getProductNames(pageItems)
        /\ matched <=> (productNames = expected)
        /\ (Elems(productNames) = Elems(expected) /\ productNames # expected) => ~matched

C6_Witness ==
    /\ compared /\ ~matched
    /\ productNames = <<"Apple", "Mango", "Zebra">>
    /\ expected = <<"Zebra", "Mango", "Apple">>

\* The order of the reference list itself
OrderedFor(cmp, s) == IF cmp = "AZ" THEN PairwiseAZ(s) ELSE PairwiseZA(s)

\* The verdict of a name check on s (localeCompare is a consistent comparator)
IsOrderedNames(cmp, s) ==
    SameJSON(JSONstringifyNames(s), JSONstringifyNames(StableSort(cmp, s)))

\* C7 as stated: whenever the names match the reference list, the name check
\* that ran on them returned true, whatever the reference list and direction.
C7_MatchImpliesOrdered ==
    (compared /\ matched /\ lastCheck \in NameChecks) => result

\* C7 amended: whenever the names match a reference list that is itself in
\* the order the check asks for, the check returned true; and some sequence
\* passes the check without matching a reference list.
C7_MatchOfOrderedReferenceImpliesOrdered ==
    /\ (compared /\ matched /\ lastCheck \in NameChecks /\ OrderedFor(lastCheck, expected))
          => result
    /\ \E s, e \in SeqsUpTo(ExpectedNames, 2) :
          IsOrderedNames("AZ", s) /\ ~toEqual(s, e)

C7_Witness ==
    /\ compared /\ matched /\ lastCheck = "ZA" /\ result
    /\ expected = <<"Zebra", "Mango", "Apple">>

(***************************************************************************)
(* Properties of the totals checks (specification SpecTotals)              *)
(***************************************************************************)
\* e is subtotal * rate rounded to the cent: the cent nearest to the exact
\* product (in hundredths of a cent: s * r), a half cent going up
IsRoundedTax(e, s, r) == 100 * e - 50 <= s * r /\ s * r < 100 * e + 50

\* C8: the tax check returns true exactly when the observed tax is within
\* one cent of subtotal * rate rounded to the cent; for 100.00 at 8%, 8.00
\* and 8.01 are accepted and 8.50 is rejected.
C8_TaxWithinOneCent ==
    totalsCheck = "tax" =>
        /\ taxValid <=> \E e \in 0..((subtotal * rate) \div 100 + 1) :
                            IsRoundedTax(e, subtotal, rate) /\ tax \in (e - 1)..(e + 1)
        /\ (subtotal = 10000 /\ rate = 8 /\ tax \in { 800, 801 }) => taxValid
        /\ (subtotal = 10000 /\ rate = 8 /\ tax = 850) => ~taxValid

C8_Witness ==
    /\ totalsCheck = "tax" /\ taxValid
    /\ subtotal = 10000 /\ rate = 8 /\ tax = 801

\* subtotal * rate falls exactly on a half cent
OnHalfCent(s, r) == (s * r) % 100 = 50

\* C9: when subtotal * rate falls exactly on a half cent, the expected tax
\* is the next cent up.
C9_HalfCentRoundsUp ==
    (totalsCheck = "tax" /\ OnHalfCent(subtotal, rate))
        => expectedTax = (subtotal * rate) \div 100 + 1

C9_Witness ==
    /\ totalsCheck = "tax" /\ subtotal = 10 /\ rate = 5 /\ expectedTax = 1

\* C10: the total check returns true exactly when the observed total is
\* within one cent of subtotal + tax; (100.00, 8.00, 108.00) is accepted and
\* (100.00, 8.00, 107.98) is rejected.
C10_TotalWithinOneCent ==
    totalsCheck = "total" =>
        /\ totalValid <=> (total >= subtotal + tax - 1 /\ total <= subtotal + tax + 1)
        /\ (subtotal = 10000 /\ tax = 800 /\ total = 10800) => totalValid
        /\ (subtotal = 10000 /\ tax = 800 /\ total = 10798) => ~totalValid

C10_Witness ==
    /\ totalsCheck = "total" /\ ~totalValid
    /\ subtotal = 10000 /\ tax = 800 /\ total = 10798

(***************************************************************************)
(* Properties of the handling of negative amounts (specification           *)
(* SpecAmounts)                                                            *)
(***************************************************************************)
NonNegative(s) == \A i \in 1..Len(s) : s[i].nan \/ s[i].v >= 0

\* C11, the totals checks: a totals check that returned a boolean got no
\* negative amount.
C11_TotalsGuardNegative ==
    /\ totalsCheck = "tax" => (subtotal >= 0 /\ tax >= 0)
    /\ totalsCheck = "total" => (subtotal >= 0 /\ tax >= 0 /\ total >= 0)

\* C11: no check returns a boolean on a negative amount: a totals check that
\* returned a boolean got no negative amount, and a price check that returned
\* a boolean compared no negative parsed price.
C11_NegativeAmountRejected ==
    /\ C11_TotalsGuardNegative
    /\ lastCheck \in PriceChecks => NonNegative(prices)

(***************************************************************************)
(* Properties of the normalization (specification SpecNormalize)           *)
(***************************************************************************)
\* A page that shows the given names (prices) as its texts
ItemsOfNames(ns) == [i \in 1..Len(ns) |-> [name |-> ns[i], price |-> ""]]
ItemsOfPrices(ps) == [i \in 1..Len(ps) |-> [name |-> "", price |-> numberToString(ps[i])]]

\* The normalized names (prices), normalized once more
NamesAgain(ns) == getProductNames(ItemsOfNames(ns))
PricesAgain(ps) == getProductPrices(ItemsOfPrices(ps))

\* C12: normalizing the normalized sequence changes nothing, and the check
\* gives the same verdict on the sequence normalized once more.
C12_NormalizationIdempotent ==
    /\ lastCheck \in NameChecks =>
          /\ NamesAgain(names) = names
          /\ result = IsOrderedNames(lastCheck, NamesAgain(names))
    /\ lastCheck \in PriceChecks => PricesAgain(prices) = prices

\* C12, without blank names: when no name text is blank after trimming,
\* normalizing once more changes neither the sequence nor the verdict.
C12_IdempotentWithoutBlankNames ==
    /\ (lastCheck \in NameChecks /\ "" \notin Elems(names)) =>
          /\ NamesAgain(names) = names
          /\ result = IsOrderedNames(lastCheck, NamesAgain(names))
    /\ lastCheck \in PriceChecks => PricesAgain(prices) = prices

(***************************************************************************)
(* Properties of concurrent checks (specification SpecShared)              *)
(***************************************************************************)
\* The verdict of a check run alone on the given page
VerdictAlone(cmp, items) ==
    SameJSON(StringifyFor(cmp, ReadFor(cmp, items)),
             StringifyFor(cmp, StableSort(cmp, ReadFor(cmp, items))))

InOrderOf(option, ns, ps) ==
    CASE option = "az" -> PairwiseAZ(ns)
      [] option = "za" -> PairwiseZA(ns)
      [] option = "lohi" -> PairwiseAscending(ps)
      [] option = "hilo" -> PairwiseDescending(ps)

\* C14: what a test reads after sortProductsBy(option) has returned is in
\* the order of that option, never in the order shown before.
C14_ReadAfterSortSeesSortedOrder ==
    tcPhase = "read" => InOrderOf(returnedOption, productNames, readPrices)

(***************************************************************************)
(* Properties of the extraction on pages with missing texts                *)
(* (specification SpecNormalize)                                           *)
(***************************************************************************)
\* Every name element of the page has a text
AllNamesHaveText(items) == \A i \in 1..Len(items) : Truthy(items[i].name)

\* Every price element of the page has a text
AllPricesHaveText(items) == \A i \in 1..Len(items) : Truthy(items[i].price)

\* C15: an element without text is never turned into a shorter sequence: a
\* check that returned a verdict read a text from every element of the page.
C15_MissingTextNotMasked ==
    /\ lastCheck \in NameChecks => AllNamesHaveText(pageItems)
    /\ lastCheck \in PriceChecks => AllPricesHaveText(pageItems)

\* C15, what the extraction does instead: it returns one value for each
\* element that has a text and skips the others.
C15_MissingTextSkipped ==
    /\ lastCheck \in NameChecks =>
           Len(names) = Cardinality({ i \in 1..Len(pageItems) : Truthy(pageItems[i].name) })
    /\ lastCheck \in PriceChecks =>
           Len(prices) = Cardinality({ i \in 1..Len(pageItems) : Truthy(pageItems[i].price) })

(***************************************************************************)
(* Properties of TC_01 with its screenshots (specification SpecEvidence)   *)
(***************************************************************************)
\* C16: a screenshot that could not be recorded does not fail the test: a
\* test whose screenshot failed is not ended as failed by it.
C16_ScreenshotFailureNotAVerdict ==
    shotFailed => TestOutcome # "failed"

\* C16, what the code does: once a screenshot has failed no later step of
\* the test runs, so no check that follows it gives a verdict.
C16_ScreenshotFailureEndsTest ==
    shotFailed => /\ lastCheck = "none" /\ ~compared
                  /\ TestOutcome = "failed"

\* SORT_ORDERS.<order>: the names of the inventory in the order of an option
ReferenceOrder(option, items) ==
    getProductNames(PageOrder(option, PageOrder("az", items)))

\* C17: after sortProductsBy calls ending in an option, the names the test
\* reads are the reference order of that option and the matching order
\* check is true, whatever was selected before.
C17_OrderDependsOnLastOption ==
    tcPhase = "read" =>
        /\ productNames = ReferenceOrder(returnedOption, pageItems)
        /\ lastCheck # "none" => result

\* C17, on the page alone: once it has re-rendered, the list it shows is the
\* reference order of the selected option.
C17_RenderedOrderIsReference ==
    ~renderPending => getProductNames(pageItems) = ReferenceOrder(selected, pageItems)

C18_CountFollowsAddAndRemove ==
    [][ (~cartThrown') =>
          /\ (lastCartOp' = "remove" /\ cartRows' # cartRows) =>
                /\ CartPage_getCartItemCount(cartRows') = CartPage_getCartItemCount(cartRows) - 1
                /\ BasePage_getCartItemCount(cartRows') = BasePage_getCartItemCount(cartRows) - 1
          /\ (lastCartOp' = "add" /\ cartRows' # cartRows) =>
                BasePage_getCartItemCount(cartRows')
                    = BasePage_getCartItemCount(cartRows) + Cardinality(Elems(cartRows') \ Elems(cartRows))
      ]_vars

C19_CartShowsWhatWasAdded ==
    namesRead =>
        /\ Len(cartItemNames) = Cardinality(requested)
        /\ Elems(cartItemNames) = requested

(***************************************************************************)
(* The two reads of a sorting test (specification SpecSort)                *)
(***************************************************************************)
\* C22: the sequence the order check reads from the page is the sequence the
\* test read before it and compares with the reference list.
C22_CheckJudgesWhatTestRead ==
    tcPhase = "read" =>
        /\ lastCheck \in NameChecks => names = productNames
        /\ lastCheck \in PriceChecks => prices = readPrices

\* C22, when the test's read already saw the page re-rendered for the last
\* option: the order check then reads the same names.
C22_SameNamesOnceRendered ==
    (/\ tcPhase = "read" /\ lastCheck \in NameChecks
     /\ productNames = ReferenceOrder(returnedOption, pageItems))
        => names = productNames

(***************************************************************************)
(* Properties of the checkout test (specification SpecCheckout)            *)
(***************************************************************************)
\* The steps that lead to the confirmation page, in their order
CheckoutSequence ==
    << "login", "openCart", "proceedToCheckout", "completeCheckoutInfo",
       "overview", "finishOrder" >>

====
